---- MODULE Spec2Model ----
(***************************************************************************)
(* Model of assat.py (Android Secure Storage Analysis Tool): Menu.work,    *)
(* the Java/Static file generators, the three static analyzers            *)
(* (XMLStatic, FinderStatic, KeyStatic) and the Data / XMLFileData /       *)
(* KeyFileData report rendering.                                           *)
(*                                                                         *)
(* Text is modelled as a sequence of atoms (pieces of a line or of a file  *)
(* name); a regular expression search is computed over the atoms, case     *)
(* folded by Lower.  A Python list is an entry of the heap `lists`, so     *)
(* that two references to one list see each other's appends.  The         *)
(* rendered report (one string in the code) is the sequence of its items:  *)
(* header, path headers, category headers and entries; colour codes, tabs  *)
(* and newlines of the layout are left out.                                *)
(***************************************************************************)
EXTENDS Naturals, Sequences, FiniteSets

VARIABLES
    args,      \* Menu.args: the parsed command line
    pc,        \* position of the run: start, walk, body, done, error, crashed
    err,       \* the message of the ValueError raised by Logger.error_output
    lists,     \* heap of the Python lists the analyzers create
    files,     \* Data.files
    cur,       \* the File the generator has yielded, not yet analyzed
    nwalked,   \* number of file names os.walk has produced so far
    handles,   \* number of file objects that are open
    out        \* what was printed on standard output

vars == <<args, pc, err, lists, files, cur, nwalked, handles, out>>

\* Bounds of the model
MaxFiles == 2      \* file names the directory walk produces
MaxLines == 3      \* lines read in one run, over all files

----------------------------------------------------------------------------
\* Const

ERR_NO_WORK_MODE == "Zero or more than one work modes specified!"
ERR_NO_PATH == "Please specify the path"
ERR_NO_PATTERN == "Please specify the pattern"
HEADER == "Scan results"
NO_RES == "No results found"

STATIC_FLAGS == {"sxml", "skey", "scrypt", "sfind"}
DYNAMIC_FLAGS == {"dxml", "dbd"}

\* the keys of Menu.args in the order parse_flags adds them
ArgKeys == <<"sxml", "skey", "sfind", "pattern", "dxml", "dbd", "path", "nocolor">>
FlagKeys == {"sxml", "skey", "sfind", "dxml", "dbd", "nocolor"}

----------------------------------------------------------------------------
\* Text

\* str.lower of one atom, as re.IGNORECASE folds it
Lower(a) ==
    CASE a = "Pref" -> "pref"
      [] a = "Shared" -> "shared"
      [] a = "KeyStore" -> "keystore"
      [] a = "KeyChain" -> "keychain"
      [] a = "String" -> "string"
      [] a = "Boolean" -> "boolean"
      [] a = "Int" -> "int"
      [] OTHER -> a

IsSpace(a) == a \in {" ", "NL"}

\* the alternatives (Int|Boolean|Float|Long|String), folded
TypeNames == {"int", "boolean", "float", "long", "string"}

\* re.search(r'pref.*get(Int|Boolean|Float|Long|String)', line, IGNORECASE)
SearchGET(line) ==
    \E i \in 1..Len(line) : \E j \in (i + 1)..(Len(line) - 1) :
        /\ Lower(line[i]) = "pref"
        /\ Lower(line[j]) = "get"
        /\ Lower(line[j + 1]) \in TypeNames

\* re.search(r'pref.*put(Int|Boolean|Float|Long|String)', line, IGNORECASE)
SearchSET(line) ==
    \E i \in 1..Len(line) : \E j \in (i + 1)..(Len(line) - 1) :
        /\ Lower(line[i]) = "pref"
        /\ Lower(line[j]) = "put"
        /\ Lower(line[j + 1]) \in TypeNames

\* re.search(r'sharedPreferences', line, IGNORECASE)
SearchPREFS(line) ==
    \E i \in 1..(Len(line) - 2) :
        /\ Lower(line[i]) = "shared"
        /\ Lower(line[i + 1]) = "pref"
        /\ Lower(line[i + 2]) = "erences"

\* re.search(r'KeyChain|KeyStore', line, IGNORECASE)
SearchKEY(line) ==
    \E i \in 1..Len(line) : Lower(line[i]) \in {"keychain", "keystore"}

\* re.search(pattern, line, IGNORECASE) for a literal pattern
SearchPattern(pattern, line) ==
    \E i \in 0..(Len(line) - Len(pattern)) :
        \A j \in 1..Len(pattern) : Lower(line[i + j]) = Lower(pattern[j])

\* line.strip(): the line without its leading and trailing white space
RECURSIVE LStrip(_)
LStrip(s) == IF s # <<>> /\ IsSpace(Head(s)) THEN LStrip(Tail(s)) ELSE s

RECURSIVE RStrip(_)
RStrip(s) ==
    IF s # <<>> /\ IsSpace(s[Len(s)]) THEN RStrip(SubSeq(s, 1, Len(s) - 1)) ELSE s

strip(s) == RStrip(LStrip(s))

\* '%5d : %s\n' % (num, line.strip())
Entry(num, line) == [t |-> "entry", num |-> num, text |-> strip(line)]

\* filename.endswith('java')
EndsWithJava(name) == Len(name) >= 1 /\ name[Len(name)] = "java"

----------------------------------------------------------------------------
\* Inputs

\* the lines a scanned file is made of
LineAll == <<" ", "pref", "s", "put", "String", "shared", "Pref", "erences", "get", "String", "NL">>
LineSet == <<"shared", "Pref", "erences", "put", "Boolean", "NL">>
LineRestKey == <<"KeyStore", " ", "Shared", "Pref", "erences", "NL">>
LineNone == <<" ", "x", " ", "NL">>
Lines == {LineAll, LineSet, LineRestKey, LineNone}

\* file names: a Java source, another file, a name that only ends in 'java'
NameJava == <<"A", ".", "java">>
NameTxt == <<"B", ".", "txt">>
NameNoDot == <<"C", "java">>
Names == {NameJava, NameTxt, NameNoDot}

\* the pattern given with --pattern
Patterns == {<<"keystore">>}

\* the root directories given with --path: an existing one and a missing one
Roots == {"dir", "missing"}

None == <<>>
Some(x) == <<x>>

Contents(budget) == UNION {[1..n -> Lines] : n \in 0..budget}

----------------------------------------------------------------------------
\* Menu

ArgSpace ==
    [sxml : BOOLEAN, skey : BOOLEAN, sfind : BOOLEAN, dxml : BOOLEAN, dbd : BOOLEAN,
     nocolor : BOOLEAN,
     path : {None} \cup {Some(r) : r \in Roots},
     pattern : {None} \cup {Some(p) : p \in Patterns}]

\* whether args[key] is the value True (a path or a pattern is a str or None)
IsTrue(a, key) == key \in FlagKeys /\ a[key] = TRUE

\* Menu.work without the reset of nocolor: the flag would count as a mode
ResetNoColorMissing(a) == a

\* Menu.work: nocolor is consumed and set back to False before the count
ResetNoColor(a) == [a EXCEPT !.nocolor = FALSE]

\* list(self.args.values()).count(True)
CountTrue(a) == Cardinality({key \in FlagKeys : IsTrue(a, key)})

\* for key in self.args.keys(): if self.args[key] is True: break
RECURSIVE FirstTrue(_, _)
FirstTrue(a, i) ==
    IF i >= Len(ArgKeys) \/ IsTrue(a, ArgKeys[i]) THEN ArgKeys[i] ELSE FirstTrue(a, i + 1)

KeyOf(a) == FirstTrue(a, 1)

\* the message Menu.work raises for args a (after the nocolor reset), or "none"
WorkError(a) ==
    IF CountTrue(a) # 1 THEN ERR_NO_WORK_MODE
    ELSE IF KeyOf(a) \in STATIC_FLAGS /\ a.path = None THEN ERR_NO_PATH
    ELSE IF KeyOf(a) = "sfind" /\ a.pattern = None THEN ERR_NO_PATTERN
    ELSE "none"

----------------------------------------------------------------------------
\* The heap of lists

\* XMLStatic.analyze: setters = [], getters = [], rest = []
SETTERS == 1
GETTERS == 2
REST == 3
\* FinderStatic.analyze: tmp = []
TMP == 1

\* the lists an analyzer creates before its loop
InitialLists(key) ==
    CASE key = "sxml" -> <<<<>>, <<>>, <<>>>>
      [] key = "sfind" -> <<<<>>>>
      [] OTHER -> <<>>

\* File(content, path), with file.data set by the analyzer
File(content, path, data) == [content |-> content, path |-> path, data |-> data]
NoData == [kind |-> "none", ids |-> <<>>]

----------------------------------------------------------------------------
\* XMLStatic

\* the chain with the setter rule tested before the getter rule
XMLClassifySetFirst(line) ==
    IF SearchSET(line) THEN SETTERS
    ELSE IF SearchGET(line) THEN GETTERS
    ELSE IF SearchPREFS(line) THEN REST
    ELSE 0

\* the list a line is appended to by the if / elif chain, 0 for none
XMLClassify(line) ==
    IF SearchGET(line) THEN GETTERS
    ELSE IF SearchSET(line) THEN SETTERS
    ELSE IF SearchPREFS(line) THEN REST
    ELSE 0

\* for num, line in enumerate(file.content): ... from index n on, on heap h
RECURSIVE XMLLoop(_, _, _)
XMLLoop(content, n, h) ==
    IF n > Len(content) THEN h
    ELSE LET b == XMLClassify(content[n])
         IN XMLLoop(content, n + 1,
                IF b = 0 THEN h
                ELSE [h EXCEPT ![b] = Append(@, Entry(n - 1, content[n]))])

\* XMLFileData(getters, setters, rest): copies of the three lists, in keys order
XMLFileData(h) ==
    [heap |-> h \o <<h[GETTERS], h[SETTERS], h[REST]>>,
     data |-> [kind |-> "xml", ids |-> <<Len(h) + 1, Len(h) + 2, Len(h) + 3>>]]

XMLKeys == <<"Getters", "Setters", "Rest">>

\* setters[:] = []; getters[:] = []; rest[:] = []
XMLClear(h) == [h EXCEPT ![SETTERS] = <<>>, ![GETTERS] = <<>>, ![REST] = <<>>]

----------------------------------------------------------------------------
\* FinderStatic and KeyStatic

RECURSIVE FinderLoop(_, _, _, _)
FinderLoop(pattern, content, n, tmp) ==
    IF n > Len(content) THEN tmp
    ELSE FinderLoop(pattern, content, n + 1,
             IF SearchPattern(pattern, content[n])
             THEN Append(tmp, Entry(n - 1, content[n])) ELSE tmp)

RECURSIVE KeyLoop(_, _, _)
KeyLoop(content, n, tmp) ==
    IF n > Len(content) THEN tmp
    ELSE KeyLoop(content, n + 1,
             IF SearchKEY(content[n])
             THEN Append(tmp, Entry(n - 1, content[n])) ELSE tmp)

\* KeyFileData(strings): keeps the reference to the list it is given
KeyFileData(id) == [kind |-> "key", ids |-> <<id>>]

----------------------------------------------------------------------------
\* Rendering

HeaderItem == [t |-> "header", num |-> 0, text |-> <<HEADER>>]
NoResItem == [t |-> "no_res", num |-> 0, text |-> <<NO_RES>>]
PathItem(path) == [t |-> "path", num |-> path.id, text |-> path.name]
KeyItem(key) == [t |-> "key", num |-> 0, text |-> <<key>>]

RECURSIVE XMLFileData_get_string(_, _, _)
XMLFileData_get_string(data, h, k) ==
    IF k > Len(XMLKeys) THEN <<>>
    ELSE (IF Len(h[data.ids[k]]) > 0
          THEN <<KeyItem(XMLKeys[k])>> \o h[data.ids[k]] ELSE <<>>)
         \o XMLFileData_get_string(data, h, k + 1)

KeyFileData_get_string(data, h) == h[data.ids[1]]

get_string(data, h) ==
    IF data.kind = "xml" THEN XMLFileData_get_string(data, h, 1)
    ELSE KeyFileData_get_string(data, h)

\* the loop of Data.get_data over self.files, from index i on
RECURSIVE get_data_loop(_, _, _)
get_data_loop(fs, h, i) ==
    IF i > Len(fs) THEN <<>>
    ELSE LET tmp == get_string(fs[i].data, h)
         IN (IF Len(tmp) > 0 THEN <<PathItem(fs[i].path)>> \o tmp ELSE <<>>)
            \o get_data_loop(fs, h, i + 1)

get_data(fs, h) ==
    LET s == get_data_loop(fs, h, 1)
    IN IF Len(s) > 0 THEN <<HeaderItem>> \o s ELSE <<NoResItem>>

----------------------------------------------------------------------------
\* The run

Init ==
    /\ args \in ArgSpace
    /\ pc = "start"
    /\ err = "none"
    /\ lists = <<>>
    /\ files = <<>>
    /\ cur = None
    /\ nwalked = 0
    /\ handles = 0
    /\ out = <<>>

\* Menu.work up to the first resumption of the generator in analyze()
Work ==
    /\ pc = "start"
    /\ LET a == ResetNoColor(args)
           e == WorkError(a)
       IN /\ args' = a
          /\ err' = e
          /\ IF e # "none" THEN pc' = "error" /\ lists' = lists
             ELSE IF KeyOf(a) \in STATIC_FLAGS
                  THEN pc' = "walk" /\ lists' = InitialLists(KeyOf(a))
                  ELSE pc' = "done" /\ lists' = lists
    /\ UNCHANGED <<files, cur, nwalked, handles, out>>

\* os.walk(self.path) produces file names only under a directory that exists
\* (it ignores the error of listing a missing one)
CanWalk == args.path # None /\ args.path[1] = "dir" /\ nwalked < MaxFiles

TotalLines ==
    LET RECURSIVE Sum(_)
        Sum(i) == IF i > Len(files) THEN 0 ELSE Len(files[i].content) + Sum(i + 1)
    IN Sum(1)

\* Static.get_next_file: a file name that does not end in 'java' is passed over
WalkSkip ==
    /\ pc = "walk" /\ CanWalk
    /\ \E name \in Names : ~EndsWithJava(name)
    /\ nwalked' = nwalked + 1
    /\ UNCHANGED <<args, pc, err, lists, files, cur, handles, out>>

\* Static.get_next_file yields File(get_file_content(filename), filename).
\* get_file_content never closes the file object it opens: it is closed when
\* the interpreter finalizes it, at the return or later.
Yield ==
    /\ pc = "walk" /\ CanWalk
    /\ \E name \in Names : \E content \in Contents(MaxLines - TotalLines) :
       \E closed \in BOOLEAN :
          /\ EndsWithJava(name)
          /\ cur' = Some(File(content, [id |-> nwalked + 1, name |-> name], NoData))
          /\ handles' = IF closed THEN handles ELSE handles + 1
    /\ nwalked' = nwalked + 1
    /\ pc' = "body"
    /\ UNCHANGED <<args, err, lists, files, out>>

\* a read failure handled by printing what was collected so far
ReadFailPrintsPartial ==
    /\ pc = "walk" /\ CanWalk
    /\ \E name \in Names : EndsWithJava(name)
    /\ \E opened \in BOOLEAN : handles' = IF opened THEN handles + 1 ELSE handles
    /\ nwalked' = nwalked + 1
    /\ out' = Append(out, get_data(files, lists))
    /\ pc' = "crashed"
    /\ UNCHANGED <<args, err, lists, files, cur>>

\* open() or readlines() raises: nothing catches it, the run ends
ReadFail ==
    /\ pc = "walk" /\ CanWalk
    /\ \E name \in Names : EndsWithJava(name)
    /\ \E opened \in BOOLEAN : handles' = IF opened THEN handles + 1 ELSE handles
    /\ nwalked' = nwalked + 1
    /\ pc' = "crashed"
    /\ UNCHANGED <<args, err, lists, files, cur, out>>

\* the interpreter finalizes a file object nothing refers to
Finalize ==
    /\ handles > 0
    /\ handles' = handles - 1
    /\ UNCHANGED <<args, pc, err, lists, files, cur, nwalked, out>>

\* one pass of the loop of XMLStatic.analyze
XMLStatic_analyze ==
    /\ pc = "body" /\ KeyOf(args) = "sxml"
    /\ LET file == cur[1]
           x == XMLFileData(XMLLoop(file.content, 1, lists))
       IN /\ files' = Append(files, [file EXCEPT !.data = x.data])
          /\ lists' = XMLClear(x.heap)
    /\ cur' = None
    /\ pc' = "walk"
    /\ UNCHANGED <<args, err, nwalked, handles, out>>

\* one pass of the loop of FinderStatic.analyze
FinderStatic_analyze ==
    /\ pc = "body" /\ KeyOf(args) = "sfind"
    /\ LET file == cur[1]
       IN /\ lists' = [lists EXCEPT ![TMP] = FinderLoop(args.pattern[1], file.content, 1, @)]
          /\ files' = Append(files, [file EXCEPT !.data = KeyFileData(TMP)])
    /\ cur' = None
    /\ pc' = "walk"
    /\ UNCHANGED <<args, err, nwalked, handles, out>>

\* one pass of the loop of KeyStatic.analyze
KeyStatic_analyze ==
    /\ pc = "body" /\ KeyOf(args) = "skey"
    /\ LET file == cur[1]
       IN /\ lists' = Append(lists, KeyLoop(file.content, 1, <<>>))
          /\ files' = Append(files, [file EXCEPT !.data = KeyFileData(Len(lists) + 1)])
    /\ cur' = None
    /\ pc' = "walk"
    /\ UNCHANGED <<args, err, nwalked, handles, out>>

\* the generator is exhausted: Logger.output_data(data)
Output ==
    /\ pc = "walk"
    /\ out' = Append(out, get_data(files, lists))
    /\ pc' = "done"
    /\ UNCHANGED <<args, err, lists, files, cur, nwalked, handles>>

Next ==
    \/ Work
    \/ WalkSkip
    \/ Yield
    \/ ReadFail
    \/ Finalize
    \/ XMLStatic_analyze
    \/ FinderStatic_analyze
    \/ KeyStatic_analyze
    \/ Output

Spec == Init /\ [][Next]_vars

----------------------------------------------------------------------------
\* Reading the printed report

Printed == out # <<>>
Report == out[1]

\* whether a line matches some rule of the active mode
Matches(line) ==
    CASE KeyOf(args) = "sxml" -> SearchGET(line) \/ SearchSET(line) \/ SearchPREFS(line)
      [] KeyOf(args) = "skey" -> SearchKEY(line)
      [] KeyOf(args) = "sfind" -> SearchPattern(args.pattern[1], line)
      [] OTHER -> FALSE

MatchIdx(f) == {n \in 1..Len(f.content) : Matches(f.content[n])}

HasHeader(f) == \E k \in 1..Len(Report) : Report[k] = PathItem(f.path)

\* the items printed from position k up to the next path header
RECURSIVE UpToNextPath(_, _)
UpToNextPath(r, k) ==
    IF k > Len(r) \/ r[k].t = "path" THEN <<>> ELSE <<r[k]>> \o UpToNextPath(r, k + 1)

IsEntry(item) == item.t = "entry"

\* the entries printed under the header of file f, top to bottom
EntriesUnder(f) ==
    IF HasHeader(f)
    THEN LET k == CHOOSE k \in 1..Len(Report) : Report[k] = PathItem(f.path)
         IN SelectSeq(UpToNextPath(Report, k + 1), IsEntry)
    ELSE <<>>

\* the file name has the extension '.java'
HasJavaExt(name) ==
    Len(name) >= 2 /\ name[Len(name) - 1] = "." /\ name[Len(name)] = "java"

ModeFlags == {"sxml", "skey", "sfind", "dxml", "dbd"}
NumModes(a) == Cardinality({key \in ModeFlags : a[key]})

----------------------------------------------------------------------------
\* Claims

\* C1: in every static mode a file none of whose lines matches a rule of the
\* active mode has no path header in the printed report.
C1_NoMatchFileAbsent ==
    Printed => \A i \in 1..Len(files) : MatchIdx(files[i]) = {} => ~HasHeader(files[i])

\* C2: in the printed report the entries under a file are exactly the records
\* (0-based line number, trimmed text) of that file's own matching lines, one
\* entry per matching line.
C2_EntriesAreOwnMatches ==
    Printed => \A i \in 1..Len(files) :
        LET es == EntriesUnder(files[i])
        IN /\ {es[k] : k \in 1..Len(es)}
                = {Entry(n - 1, files[i].content[n]) : n \in MatchIdx(files[i])}
           /\ Len(es) = Cardinality(MatchIdx(files[i]))

\* C3: in preference-access mode a line matching the getter rule is recorded in
\* Getters only, a line matching the setter rule but not the getter rule in
\* Setters only, a line matching only the catch-all rule in Rest only, a line
\* matching no rule in no bucket; so a line number is in at most one bucket.
InBucket(f, b, n) ==
    \E k \in 1..Len(lists[f.data.ids[b]]) : lists[f.data.ids[b]][k].num = n - 1

HasRecord(f, b, n) ==
    \E k \in 1..Len(lists[f.data.ids[b]]) :
        lists[f.data.ids[b]][k] = Entry(n - 1, f.content[n])

BucketsOf(f, n) == {b \in 1..3 : InBucket(f, b, n)}

C3_FirstMatchWins ==
    KeyOf(args) = "sxml" =>
        \A i \in 1..Len(files) : \A n \in 1..Len(files[i].content) :
            LET f == files[i]
                line == f.content[n]
            IN /\ Cardinality(BucketsOf(f, n)) <= 1
               /\ SearchGET(line) => BucketsOf(f, n) = {1} /\ HasRecord(f, 1, n)
               /\ ~SearchGET(line) /\ SearchSET(line)
                    => BucketsOf(f, n) = {2} /\ HasRecord(f, 2, n)
               /\ ~SearchGET(line) /\ ~SearchSET(line) /\ SearchPREFS(line)
                    => BucketsOf(f, n) = {3} /\ HasRecord(f, 3, n)
               /\ ~SearchGET(line) /\ ~SearchSET(line) /\ ~SearchPREFS(line)
                    => BucketsOf(f, n) = {}

\* a file with a line matching getter and setter, a line matching setter and
\* catch-all, and a line matching nothing has been classified and printed
C3_Witness ==
    /\ KeyOf(args) = "sxml" /\ Printed
    /\ \E i \in 1..Len(files) : \E n1, n2, n3 \in 1..Len(files[i].content) :
        LET c == files[i].content
        IN /\ SearchGET(c[n1]) /\ SearchSET(c[n1]) /\ SearchPREFS(c[n1])
           /\ ~SearchGET(c[n2]) /\ SearchSET(c[n2]) /\ SearchPREFS(c[n2])
           /\ ~Matches(c[n3])

\* C4: the line numbers of the entries printed under a file's header, read
\* top to bottom, are in non-decreasing order.
C4_LineNumbersNonDecreasing ==
    Printed => \A i \in 1..Len(files) :
        LET es == EntriesUnder(files[i])
        IN \A k \in 1..(Len(es) - 1) : es[k].num <= es[k + 1].num

\* C5: Menu.work raises the work-mode error whenever the number of mode flags
\* is not one, whatever path, pattern and nocolor are, and then nothing has
\* been walked, opened or printed.
C5_ModeCountError ==
    [][pc = "start" /\ NumModes(args) # 1
         => /\ pc' = "error" /\ err' = ERR_NO_WORK_MODE
            /\ nwalked' = 0 /\ handles' = 0 /\ cur' = None /\ files' = <<>>
            /\ out' = <<>>]_vars

\* the error was raised for several modes with a path and a pattern given
C5_Witness ==
    /\ pc = "error" /\ err = ERR_NO_WORK_MODE
    /\ NumModes(args) > 1 /\ args.path # None /\ args.pattern # None

\* C6: with a root that is no readable directory the scan aborts and prints
\* nothing, neither results nor the no-results message.
C6_BadRootPrintsNothing ==
    args.path = Some("missing") /\ KeyOf(args) \in STATIC_FLAGS => ~Printed

\* C7: the report is the no-results message exactly if no scanned file has a
\* match; otherwise it is the header once, followed only by files that have a
\* match.
C7_NoResultsIffNoMatch ==
    Printed =>
        LET none == \A i \in 1..Len(files) : MatchIdx(files[i]) = {}
        IN /\ Report = <<NoResItem>> <=> none
           /\ ~none =>
                /\ Report[1] = HeaderItem
                /\ \A k \in 2..Len(Report) : Report[k].t \notin {"header", "no_res"}
                /\ \A i \in 1..Len(files) :
                     HasHeader(files[i]) => MatchIdx(files[i]) # {}

\* C8: when reading a file fails in mid-scan, in every static mode, nothing is
\* printed: no report of only the files scanned before the failure appears.
C8_FailureNeverPrintsPartial ==
    /\ pc = "crashed" => ~Printed
    /\ Printed => pc = "done" /\ cur = None

\* a read failed after a file with matches had been scanned
C8_Witness ==
    /\ pc = "crashed"
    /\ Len(files) >= 1
    /\ get_data(files, lists)[1] = HeaderItem

\* C9: a file is opened, read and scanned only if its name has the extension
\* '.java'.
C9_OnlyJavaExtensionRead ==
    /\ \A i \in 1..Len(files) : HasJavaExt(files[i].path.name)
    /\ cur # None => HasJavaExt(cur[1].path.name)

\* C10: at most one file handle is open at any point, none while a file's
\* lines are classified and none when the scan has ended.
C10_HandlesScoped ==
    /\ handles <= 1
    /\ pc \in {"body", "done", "crashed"} => handles = 0

====
